---- MODULE Spec2Model ----
(***************************************************************************)
(* Model of tri_solitaire.c: the exhaustive depth-first search of the      *)
(* triangle peg game and the reconstruction and replay of the first        *)
(* winning path.                                                           *)
(*                                                                         *)
(* Two specifications share the operators translated from the code.        *)
(*                                                                         *)
(* Spec is main() step by step: the call stack of generate_boards(), the   *)
(* boards, the global counters, then lines 328-340.  The search of         *)
(* initial_board_1 visits 323,873 boards one after the other, a single     *)
(* behaviour of about 650,000 steps, so Spec runs main() on the smaller    *)
(* positions of that search instead: every peg configuration with at most  *)
(* MaxPegs pegs that the search of initial_board_1 passes to               *)
(* generate_boards(), written as a starting layout.                        *)
(*                                                                         *)
(* TreeSpec is the call tree of generate_boards(&initial_board_1) itself.  *)
(* A state is one activation of generate_boards(): its board, its parent's *)
(* board, the jump that made it, the recursion depth; a step goes from an  *)
(* activation to any of the activations it calls at line 234.  A callee    *)
(* writes only the board it allocates, that board's descendants and the    *)
(* global counters, so the calls an activation makes do not depend on      *)
(* which of them is followed.  TreeSpec reaches every board of the search  *)
(* of initial_board_1; it does not track total_boards, boardnum or next[], *)
(* and it follows the calls whose calloc() succeeded.                      *)
(*                                                                         *)
(* A board is a record with the fields of struct board.  In Spec boards    *)
(* live in `heap`, addressed by the order of their creation (the root is   *)
(* 1, NULL is 0).  The program never frees a board, but it never reads or  *)
(* writes a board again once generate_boards() has returned from it,       *)
(* unless the board lies on the prev chain of winning_board; `heap` keeps  *)
(* the root and the boards of the active calls and of that chain only.     *)
(*                                                                         *)
(* squares[row][col] of the code is squares[row + 1][col + 1] here         *)
(* (tuples are indexed from 1); Sq(sq, row, col) hides the shift.          *)
(***************************************************************************)
EXTENDS Integers, Sequences, FiniteSets, Bags, TLC

\* ---------------------------------------------------------------- constants
NUM_ROWS == 9
NUM_COLS == 13
NUM_OFFSETS == 6

\* Mutant of MAX_BOARDS: next[] sized for one child per direction.
MAX_BOARDS_PerDirection == NUM_OFFSETS

MAX_BOARDS == 14
POS_EMPTY == 0
POS_FULL == 1
POS_INVALID == 2
POS_LAST == 16
NULL == 0

rowoffsets == <<-1, -1, 1, 1, 0, 0>>
\* Mutant of coloffsets: the horizontal jump not doubled (the six unit
\* directions of the triangle written into the rectangular grid as they are).
coloffsetsUnit == <<-1, 1, -1, 1, -1, 1>>

coloffsets == <<-1, 1, -1, 1, -2, 2>>

\* offnum of the code is 0-based
roff(offnum) == rowoffsets[offnum + 1]
coff(offnum) == coloffsets[offnum + 1]

X == POS_FULL
O == POS_EMPTY
I == POS_INVALID

initial_board_1 ==
    << <<I, I, I, I, I, I, I, I, I, I, I, I, I>>,
       <<I, I, I, I, I, I, I, I, I, I, I, I, I>>,
       <<I, I, I, I, I, I, X, I, I, I, I, I, I>>,
       <<I, I, I, I, I, X, I, X, I, I, I, I, I>>,
       <<I, I, I, I, X, I, O, I, X, I, I, I, I>>,
       <<I, I, I, X, I, X, I, X, I, X, I, I, I>>,
       <<I, I, X, I, X, I, X, I, X, I, X, I, I>>,
       <<I, I, I, I, I, I, I, I, I, I, I, I, I>>,
       <<I, I, I, I, I, I, I, I, I, I, I, I, I>> >>

Rows == 0 .. NUM_ROWS - 1
Cols == 0 .. NUM_COLS - 1
Offsets == 0 .. NUM_OFFSETS - 1

\* ------------------------------------------------------------- cell access
InGrid(row, col) == row \in Rows /\ col \in Cols

Sq(sq, row, col) == sq[row + 1][col + 1]

SetSq(sq, row, col, v) == [sq EXCEPT ![row + 1][col + 1] = v]

\* v & POS_FULL
IsFull(v) == v % 2 = 1

\* v & POS_LAST
IsLast(v) == (v \div POS_LAST) % 2 = 1

\* Mutant of ClearLastBit: `&= POS_FULL` written for `&= ~POS_LAST`.
KeepFullBitOnly(v) == v % 2

\* v & ~POS_LAST
ClearLastBit(v) == IF IsLast(v) THEN v - POS_LAST ELSE v

\* count_pegs(): the number of cells with the POS_FULL bit
count_pegs(sq) ==
    Cardinality({rc \in Rows \X Cols : IsFull(Sq(sq, rc[1], rc[2]))})

\* Mutant of clear_last: line 226 is missing, the markers of the parent stay.
clear_last_skipped(sq) == sq

\* clear_last(): every cell loses the POS_LAST bit
clear_last(sq) ==
    [r \in 1 .. NUM_ROWS |-> [c \in 1 .. NUM_COLS |-> ClearLastBit(sq[r][c])]]


\* ------------------------------------------------- the move test (line 221)
AdjCell(row, col, offnum) == <<row + roff(offnum), col + coff(offnum)>>

LandCell(row, col, offnum) == <<row + 2 * roff(offnum), col + 2 * coff(offnum)>>

\* Mutant of Accesses: both operands of the test are read (& for &&).
AccessesBoth(sq, row, col, offnum) ==
    {<<row + roff(offnum), col + coff(offnum)>>,
     <<row + 2 * roff(offnum), col + 2 * coff(offnum)>>}

\* The cells the condition of line 221 reads for an occupied source cell: the
\* adjacent cell always, the landing cell only when the adjacent cell holds a
\* peg (C's && does not evaluate its right operand otherwise).
Accesses(sq, row, col, offnum) ==
    LET a == AdjCell(row, col, offnum)
    IN  IF InGrid(a[1], a[2]) /\ IsFull(Sq(sq, a[1], a[2]))
        THEN {a, LandCell(row, col, offnum)}
        ELSE {a}

AccessesInGrid(sq, row, col, offnum) ==
    \A a \in Accesses(sq, row, col, offnum) : InGrid(a[1], a[2])

\* Mutant of Legal: the landing cell is tested for "no peg" instead of
\* "== POS_EMPTY".
LegalLandingNotFull(sq, row, col, offnum) ==
    /\ IsFull(Sq(sq, row + roff(offnum), col + coff(offnum)))
    /\ ~IsFull(Sq(sq, row + 2 * roff(offnum), col + 2 * coff(offnum)))

\* (b->squares[row + roff][col + coff] & POS_FULL) &&
\*  b->squares[row + 2 * roff][col + 2 * coff] == POS_EMPTY
Legal(sq, row, col, offnum) ==
    LET a == AdjCell(row, col, offnum)
        l == LandCell(row, col, offnum)
    IN  /\ IsFull(Sq(sq, a[1], a[2]))
        /\ Sq(sq, l[1], l[2]) = POS_EMPTY

\* Mutant of MakeChild: line 225 is missing, the child keeps the zeroes of
\* calloc() apart from the three cells written.
MakeChildNoCopy(sq, row, col, offnum) ==
    SetSq(SetSq(SetSq([r \in 1 .. NUM_ROWS |-> [c \in 1 .. NUM_COLS |-> 0]],
                      row, col, POS_EMPTY),
                row + roff(offnum), col + coff(offnum), POS_EMPTY),
          row + 2 * roff(offnum), col + 2 * coff(offnum), POS_FULL + POS_LAST)

\* Mutant of MakeChild: line 227 is missing, the jumping peg stays behind.
MakeChildKeepSource(sq, row, col, offnum) ==
    SetSq(SetSq(clear_last(sq), row + roff(offnum), col + coff(offnum),
                POS_EMPTY),
          row + 2 * roff(offnum), col + 2 * coff(offnum), POS_FULL + POS_LAST)

\* Mutant of MakeChild: line 228 is missing, the jumped peg stays.
MakeChildKeepJumped(sq, row, col, offnum) ==
    SetSq(SetSq(clear_last(sq), row, col, POS_EMPTY),
          row + 2 * roff(offnum), col + 2 * coff(offnum), POS_FULL + POS_LAST)

\* Lines 225-229: the child's grid.
MakeChild(sq, row, col, offnum) ==
    LET a == AdjCell(row, col, offnum)
        l == LandCell(row, col, offnum)
    IN  SetSq(SetSq(SetSq(clear_last(sq), row, col, POS_EMPTY),
                    a[1], a[2], POS_EMPTY),
              l[1], l[2], POS_FULL + POS_LAST)

\* Mutant of Resume: the offsets loop is left after a jump (a break after
\* line 234).
ResumeNextCell(row, col, offnum) == <<row, col + 1, 0>>

\* Where the loops continue after the call of line 234 returns: offnum++.
Resume(row, col, offnum) == <<row, col, offnum + 1>>

\* The three nested loops of lines 212-238, run from the loop variables
\* (row, col, offnum) up to the next move they find.  kind is "move" at a
\* triple that passes the test of line 221, "oob" at a triple whose test
\* reads outside the array, "none" when a loop ends without either, and "end"
\* when row reaches NUM_ROWS.
ScanResult(kind, row, col, offnum) ==
    [kind |-> kind, row |-> row, col |-> col, offnum |-> offnum]

\* The element of a one-element set; {e(x) : x \in {v}} names the value v once.
Only(S) == CHOOSE x \in S : TRUE

\* for (offnum...; offnum < NUM_OFFSETS; offnum++), lines 218-236
RECURSIVE ScanOffsets(_, _, _, _)
ScanOffsets(sq, row, col, offnum) ==
    IF offnum >= NUM_OFFSETS THEN ScanResult("none", row, col, offnum)
    ELSE IF ~AccessesInGrid(sq, row, col, offnum)
    THEN ScanResult("oob", row, col, offnum)
    ELSE IF Legal(sq, row, col, offnum)
    THEN ScanResult("move", row, col, offnum)
    ELSE ScanOffsets(sq, row, col, offnum + 1)

\* for (col...; col < NUM_COLS; col++), lines 213-237
RECURSIVE ScanCols(_, _, _, _)
ScanCols(sq, row, col, offnum) ==
    IF col >= NUM_COLS THEN ScanResult("none", row, col, offnum)
    ELSE IF ~IsFull(Sq(sq, row, col)) THEN ScanCols(sq, row, col + 1, 0)
    ELSE Only({IF m.kind # "none" THEN m ELSE ScanCols(sq, row, col + 1, 0) :
                  m \in {ScanOffsets(sq, row, col, offnum)}})

\* for (row...; row < NUM_ROWS; row++), lines 212-238
RECURSIVE Scan(_, _, _, _)
Scan(sq, row, col, offnum) ==
    IF row >= NUM_ROWS THEN ScanResult("end", row, col, offnum)
    ELSE Only({IF m.kind # "none" THEN m ELSE Scan(sq, row + 1, 0, 0) :
                  m \in {ScanCols(sq, row, col, offnum)}})

\* The jumps the loops make on a board when they run to completion, from the
\* loop variables (row, col, offnum) on, in the order they make them.
RECURSIVE ScanAll(_, _, _, _)
ScanAll(sq, row, col, offnum) ==
    Only({IF m.kind # "move" THEN <<>>
          ELSE Only({<<<<m.row, m.col, m.offnum>>>>
                         \o ScanAll(sq, r[1], r[2], r[3]) :
                     r \in {Resume(m.row, m.col, m.offnum)}}) :
          m \in {Scan(sq, row, col, offnum)}})

\* The grid without the POS_LAST markers: the peg configuration.
PegConfig(sq) == clear_last(sq)

\* ----------------------------------------------------------- starting boards
\* The largest number of pegs of a starting layout of Spec.
MaxPegs == 6

Children(sq) ==
    UNION {{PegConfig(MakeChild(sq, ms[i][1], ms[i][2], ms[i][3])) :
               i \in 1 .. Len(ms)} : ms \in {ScanAll(sq, 0, 0, 0)}}

\* The peg configurations generate_boards() is called on in the search of
\* `root`, level by level.
RECURSIVE Reached(_, _)
Reached(seen, frontier) ==
    IF frontier = {} THEN seen
    ELSE Only({Reached(seen \cup nxt, nxt) :
                  nxt \in {(UNION {Children(sq) : sq \in frontier}) \ seen}})

Starts(root) ==
    {sq \in Reached({root}, {root}) : count_pegs(sq) <= MaxPegs}

\* ------------------------------------------------------------------- state
VARIABLES
    pc,                    \* where main() is
    heap,                  \* board address -> struct board
    nalloc,                \* boards created so far (the root and the calloc()s)
    stack,                 \* the active calls of generate_boards(), outermost first
    total_boards,
    total_winning_boards,
    depth,
    winning_board,
    retval,                \* what the last generate_boards() call returned
    bcur,                  \* main()'s local b (lines 331-339)
    out_total,             \* the number printed by line 328, -1 before
    printed,               \* the boards print_board() was called on by line 337
    returned,              \* history: the board the last call returned from
    act,                   \* TreeSpec: the activation that is followed
    alloc_failed,          \* history: calloc() of line 223 has returned NULL
    entered                \* history: the calls of generate_boards(), in order

vars == <<pc, heap, nalloc, stack, total_boards, total_winning_boards, depth,
          winning_board, retval, bcur, out_total, printed, returned, act,
          alloc_failed, entered>>

ROOT == 1

NoNext == [i \in 1 .. MAX_BOARDS |-> NULL]

\* struct board, as main() initialises it and as calloc() zeroes it
NewBoard(sq, prev) ==
    [squares |-> sq, next |-> NoNext, prev |-> prev, nextwin |-> NULL,
     boardnum |-> 0]

\* The frame of a call generate_boards(b): b, the locals new_board_num and
\* count, and the loop variables where the loops stand: at a jump they are
\* about to make (at = "move", before line 223), past the last row
\* (at = "end", line 240), or at a test that reads outside the array
\* (at = "oob").  `moves` is history: the (row, col, offnum) of each child
\* stored in b->next so far.
Frame(b, count, m, new_board_num, moves) ==
    [b |-> b, count |-> count, row |-> m.row, col |-> m.col,
     offnum |-> m.offnum, at |-> m.kind, new_board_num |-> new_board_num,
     moves |-> moves]

\* Lines 187-212: a call enters with new_board_num = 0 and starts the loops.
Enter(b, sq, count) == Frame(b, count, Scan(sq, 0, 0, 0), 0, <<>>)

\* Lines 234-236: back in the caller, whose loops go on.
Continue(f, sq) ==
    LET r == Resume(f.row, f.col, f.offnum)
    IN  Frame(f.b, f.count, Scan(sq, r[1], r[2], r[3]), f.new_board_num,
              f.moves)

Top == stack[Len(stack)]

NoActivation == [b |-> NULL]

\* Mutant of Globals0: total_boards starts at 0.
Globals0ZeroBoards ==
    /\ total_boards = 0
    /\ total_winning_boards = 0
    /\ depth = 0
    /\ winning_board = NULL

\* Lines 96-99: the globals as the program starts.
Globals0 ==
    /\ total_boards = 1
    /\ total_winning_boards = 0
    /\ depth = 0
    /\ winning_board = NULL

Init ==
    /\ pc = "start"
    /\ \E sq \in Starts(initial_board_1) :
          heap = [a \in {ROOT} |-> NewBoard(sq, NULL)]
    /\ nalloc = 1
    /\ stack = <<>>
    /\ Globals0
    /\ retval = "none"
    /\ bcur = NULL
    /\ out_total = -1
    /\ printed = <<>>
    /\ returned = [b |-> NULL]
    /\ act = NoActivation
    /\ alloc_failed = FALSE
    /\ entered = <<>>

\* Mutant of IsWinner: a board counts as a winner when no peg is left.
IsWinnerNoPegs(count) == count = 0

\* Line 205: if (count == 1)
IsWinner(count) == count = 1

\* Mutant of RecordWinner: line 206 is missing, every winner is stored.
RecordWinnerLast(b, count) ==
    IF IsWinner(count)
    THEN /\ winning_board' = b
         /\ total_winning_boards' = total_winning_boards + 1
    ELSE UNCHANGED <<winning_board, total_winning_boards>>

\* Lines 205-210: the winner bookkeeping of the call on board b with `count` pegs.
RecordWinner(b, count) ==
    IF IsWinner(count)
    THEN /\ winning_board' = (IF winning_board = NULL THEN b ELSE winning_board)
         /\ total_winning_boards' = total_winning_boards + 1
    ELSE UNCHANGED <<winning_board, total_winning_boards>>

\* What a call generate_boards(b) is remembered by: b, b->prev, the jump
\* (row, col, offnum) of b->prev that made b, and the boardnum (line 191) and
\* count (line 188) of the call.
Entry(b, prev, from, boardnum, count) ==
    [b |-> b, prev |-> prev, from |-> from, boardnum |-> boardnum,
     count |-> count]

\* Line 326: main() calls generate_boards(&initial_board_1); lines 188-212 of
\* that call.
MainCall ==
    /\ pc = "start"
    /\ LET sq == heap[ROOT].squares
           count == count_pegs(sq)
       IN  /\ heap' = [heap EXCEPT ![ROOT].boardnum = total_boards]
           /\ depth' = depth + 1
           /\ RecordWinner(ROOT, count)
           /\ stack' = <<Enter(ROOT, sq, count)>>
           /\ entered' = Append(entered,
                                Entry(ROOT, NULL, <<>>, total_boards, count))
    /\ pc' = "search"
    /\ UNCHANGED <<nalloc, total_boards, retval, bcur, out_total, printed,
                   returned, act, alloc_failed>>

\* The addresses on the prev chain that starts at board a.
RECURSIVE Chain(_, _)
Chain(h, a) == IF a = NULL THEN {} ELSE {a} \cup Chain(h, h[a].prev)

\* calloc(1, sizeof(struct board)) of line 223 when n boards exist: the
\* address of a new zeroed board, or NULL when no memory is left.
calloc(n) == {n + 1, NULL}

\* Mutant of Link: the child's grid is written through b instead of newb.
LinkSharedGrid(h, parent, idx, newb, board) ==
    (newb :> board) @@ [h EXCEPT ![parent].next[idx] = newb,
                                 ![parent].squares = board.squares]

\* Mutant of Link: new_board_num is incremented before the child is stored.
LinkOffByOne(h, parent, idx, newb, board) ==
    (newb :> board) @@ [h EXCEPT ![parent].next[idx + 1] = newb]

\* Lines 223-232: the heap with the new board newb, child number idx (from 1)
\* of parent.  Nothing of any other board is written.
Link(h, parent, idx, newb, board) ==
    (newb :> board) @@ [h EXCEPT ![parent].next[idx] = newb]

\* Lines 223-234, then lines 188-212 of the recursive call: the innermost
\* call creates the child of the jump its loops stand at, links it and calls
\* generate_boards() on it.  The result of calloc() is not tested: when it
\* is NULL line 224 still counts a board, and line 225 copies the grid to
\* address 0; the process is killed there (pc = "crashed") or anything else
\* follows (pc = "undefined").
Jump ==
    /\ pc = "search"
    /\ Top.at \in {"move", "oob"}
    /\ \E newb \in calloc(nalloc) :
       LET f == Top
           b == heap[f.b]
       IN  IF f.at = "oob" \/ f.new_board_num >= MAX_BOARDS
           THEN \* a read or a write outside an array: anything may follow
                /\ pc' = "undefined"
                /\ UNCHANGED <<heap, nalloc, stack, total_boards,
                               total_winning_boards, depth, winning_board,
                               alloc_failed, entered>>
           ELSE IF newb = NULL
           THEN /\ alloc_failed' = TRUE
                /\ total_boards' = total_boards + 1
                /\ pc' \in {"crashed", "undefined"}
                /\ UNCHANGED <<heap, nalloc, stack, total_winning_boards,
                               depth, winning_board, entered>>
           ELSE \E sq \in {MakeChild(b.squares, f.row, f.col, f.offnum)} :
                \E count \in {count_pegs(sq)} :
                /\ pc' = pc
                /\ nalloc' = newb
                /\ total_boards' = total_boards + 1
                /\ heap' = Link(heap, f.b, f.new_board_num + 1, newb,
                                [NewBoard(sq, f.b) EXCEPT
                                    !.boardnum = total_boards + 1])
                /\ depth' = depth + 1
                /\ RecordWinner(newb, count)
                /\ stack' = Append(
                       [stack EXCEPT ![Len(stack)] =
                           [f EXCEPT !.new_board_num = @ + 1,
                                     !.moves = Append(@, <<f.row, f.col,
                                                           f.offnum>>)]],
                       Enter(newb, sq, count))
                /\ entered' = Append(entered,
                       Entry(newb, f.b, <<f.row, f.col, f.offnum>>,
                             total_boards + 1, count))
                /\ UNCHANGED alloc_failed
    /\ UNCHANGED <<retval, bcur, out_total, printed, returned, act>>

\* Lines 240-246, then lines 234-238 of the caller: the loops of the innermost
\* call have ended; it returns, and the loops of its caller go on (or main()
\* goes on at line 328).
Return ==
    /\ pc = "search"
    /\ Top.at = "end"
    /\ LET f == Top
           b == heap[f.b]
           n == Len(stack)
       IN  /\ depth' = depth - 1
           /\ retval' = (IF f.new_board_num = 0 THEN FALSE ELSE TRUE)
           /\ returned' = [b |-> f.b, squares |-> b.squares, next |-> b.next,
                           new_board_num |-> f.new_board_num,
                           moves |-> f.moves]
           /\ stack' = (IF n = 1 THEN <<>>
                        ELSE [SubSeq(stack, 1, n - 1) EXCEPT ![n - 1] =
                                 Continue(stack[n - 1],
                                          heap[stack[n - 1].b].squares)])
           /\ heap' = (IF f.b \in Chain(heap, winning_board) \cup {ROOT}
                       THEN heap
                       ELSE [a \in DOMAIN heap \ {f.b} |-> heap[a]])
           /\ pc' = (IF n = 1 THEN "searched" ELSE pc)
    /\ UNCHANGED <<nalloc, total_boards, total_winning_boards, winning_board,
                   bcur, out_total, printed, act,
                   alloc_failed, entered>>

\* Lines 328-331: print the total; enter the reconstruction if a winner exists.
PrintTotal ==
    /\ pc = "searched"
    /\ out_total' = total_boards
    /\ IF total_winning_boards > 0
       THEN pc' = "relink" /\ bcur' = winning_board
       ELSE pc' = "done" /\ bcur' = bcur
    /\ UNCHANGED <<heap, nalloc, stack, total_boards, total_winning_boards,
                   depth, winning_board, retval, printed, returned, act,
                   alloc_failed, entered>>

\* Mutant of Relink: line 333 sets the link of b instead of b->prev.
RelinkOwnLink ==
    /\ pc = "relink"
    /\ IF heap[bcur].prev # NULL
       THEN /\ heap' = [heap EXCEPT ![bcur].nextwin = heap[bcur].prev]
            /\ bcur' = heap[bcur].prev
            /\ pc' = pc
       ELSE /\ pc' = "replay"
            /\ UNCHANGED <<heap, bcur>>
    /\ UNCHANGED <<nalloc, stack, total_boards, total_winning_boards, depth,
                   winning_board, retval, out_total, printed, returned, act,
                   alloc_failed, entered>>

\* Mutant of Relink: line 333 stores winning_board instead of b.
RelinkToWinner ==
    /\ pc = "relink"
    /\ IF heap[bcur].prev # NULL
       THEN /\ heap' = [heap EXCEPT ![heap[bcur].prev].nextwin = winning_board]
            /\ bcur' = heap[bcur].prev
            /\ pc' = pc
       ELSE /\ pc' = "replay"
            /\ UNCHANGED <<heap, bcur>>
    /\ UNCHANGED <<nalloc, stack, total_boards, total_winning_boards, depth,
                   winning_board, retval, out_total, printed, returned, act,
                   alloc_failed, entered>>

\* Lines 332-335: one test of the first while loop, and its body.
Relink ==
    /\ pc = "relink"
    /\ IF heap[bcur].prev # NULL
       THEN /\ heap' = [heap EXCEPT ![heap[bcur].prev].nextwin = bcur]
            /\ bcur' = heap[bcur].prev
            /\ pc' = pc
       ELSE /\ pc' = "replay"
            /\ UNCHANGED <<heap, bcur>>
    /\ UNCHANGED <<nalloc, stack, total_boards, total_winning_boards, depth,
                   winning_board, retval, out_total, printed, returned, act,
                   alloc_failed, entered>>

\* Lines 336-339: one test of the second while loop, and its body.
Replay ==
    /\ pc = "replay"
    /\ IF bcur # NULL
       THEN /\ printed' = Append(printed, bcur)
            /\ bcur' = heap[bcur].nextwin
            /\ pc' = pc
       ELSE /\ pc' = "done"
            /\ UNCHANGED <<printed, bcur>>
    /\ UNCHANGED <<heap, nalloc, stack, total_boards, total_winning_boards,
                   depth, winning_board, retval, out_total, returned, act,
                   alloc_failed, entered>>

Next == MainCall \/ Jump \/ Return \/ PrintTotal \/ Relink \/ Replay

Spec == Init /\ [][Next]_vars

\* ------------------------------------------------------------ the call tree
\* An activation of generate_boards(): the board b it is called on, its grid,
\* its parent (b->prev) and the parent's grid, the jump (row, col, offnum) of
\* the parent that made b, count, and the jumps its own loops make in turn
\* (`stop` is where the loops stop: "end", or "oob" at a test that reads
\* outside the array).  Boards are addressed by their place on the chain of
\* calls: the root is 1 and a child is its parent + 1.
StopAfter(sq, jumps) ==
    IF jumps = <<>> THEN Scan(sq, 0, 0, 0).kind
    ELSE Only({Scan(sq, r[1], r[2], r[3]).kind :
                  r \in {Resume(jumps[Len(jumps)][1], jumps[Len(jumps)][2],
                                jumps[Len(jumps)][3])}})

Activation(b, sq, prev, prev_squares, from) ==
    Only({[b |-> b, squares |-> sq, prev |-> prev,
           prev_squares |-> prev_squares, from |-> from,
           count |-> count_pegs(sq), jumps |-> jumps,
           stop |-> StopAfter(sq, jumps)] :
          jumps \in {ScanAll(sq, 0, 0, 0)}})

\* In TreeSpec depth is the program's depth.  total_winning_boards and
\* winning_board take the updates of lines 205-210 of the followed
\* activations only: the program's total_winning_boards is at least the
\* value here, and its winning_board is not NULL once it is not NULL here
\* (no line decrements the one or resets the other).
TInit ==
    /\ pc = "start"
    /\ heap = [a \in {ROOT} |-> NewBoard(initial_board_1, NULL)]
    /\ nalloc = 1
    /\ stack = <<>>
    /\ Globals0
    /\ retval = "none"
    /\ bcur = NULL
    /\ out_total = -1
    /\ printed = <<>>
    /\ returned = [b |-> NULL]
    /\ act = NoActivation
    /\ alloc_failed = FALSE
    /\ entered = <<>>

\* Line 326 and lines 188-210 of the call on the root.
TMainCall ==
    /\ pc = "start"
    /\ act' = Activation(ROOT, heap[ROOT].squares, NULL, <<>>, <<>>)
    /\ depth' = depth + 1
    /\ RecordWinner(ROOT, count_pegs(heap[ROOT].squares))
    /\ pc' = "tree"
    /\ UNCHANGED <<heap, nalloc, stack, total_boards, retval, bcur, out_total,
                   printed, returned, alloc_failed, entered>>

\* Lines 223-234 for one of the jumps of the followed activation, then lines
\* 188-210 of the call on the child.  A call of line 234 that has returned
\* has left depth as it found it (lines 200 and 240).
Call ==
    /\ pc = "tree"
    /\ \E i \in 1 .. Len(act.jumps) :
          LET j == act.jumps[i]
              newb == act.b + 1
          IN  \E sq \in {MakeChild(act.squares, j[1], j[2], j[3])} :
              /\ act' = Activation(newb, sq, act.b, act.squares, j)
              /\ depth' = depth + 1
              /\ RecordWinner(newb, count_pegs(sq))
    /\ UNCHANGED <<pc, heap, nalloc, stack, total_boards, retval, bcur,
                   out_total, printed, returned, alloc_failed, entered>>

TNext == TMainCall \/ Call

TreeSpec == TInit /\ [][TNext]_vars

\* =================================================================== claims
\* The words of the claims: a cell is Occupied, Empty or Invalid, and a jump
\* is a source cell and a direction.  A cell outside the grid is none of them.
Occupied(sq, rc) == InGrid(rc[1], rc[2]) /\ IsFull(Sq(sq, rc[1], rc[2]))

Empty(sq, rc) ==
    InGrid(rc[1], rc[2]) /\ ClearLastBit(Sq(sq, rc[1], rc[2])) = POS_EMPTY

Invalid(sq, rc) ==
    InGrid(rc[1], rc[2]) /\ (Sq(sq, rc[1], rc[2]) \div POS_INVALID) % 2 = 1

Triples == Rows \X Cols \X Offsets

Source(t) == <<t[1], t[2]>>

Jumped(t) == <<t[1] + roff(t[3]), t[2] + coff(t[3])>>

Landing(t) == <<t[1] + 2 * roff(t[3]), t[2] + 2 * coff(t[3])>>

\* The legal jumps of a grid: a peg, a peg next to it, an empty cell behind.
JumpTriples(sq) ==
    {t \in Triples : /\ Occupied(sq, Source(t))
                     /\ Occupied(sq, Jumped(t))
                     /\ Empty(sq, Landing(t))}

\* The peg configuration a legal jump leads to.
ApplyJump(sq, t) ==
    [r \in 1 .. NUM_ROWS |-> [c \in 1 .. NUM_COLS |->
        IF <<r - 1, c - 1>> \in {Source(t), Jumped(t)} THEN POS_EMPTY
        ELSE IF <<r - 1, c - 1>> = Landing(t) THEN POS_FULL
        ELSE ClearLastBit(sq[r][c])]]

\* The sequences of legal jumps that can be played from a grid, the empty
\* sequence included.
RECURSIVE JumpSequences(_)
JumpSequences(sq) ==
    {<<>>} \cup UNION {{<<t>> \o js : js \in JumpSequences(ApplyJump(sq, t))} :
                          t \in JumpTriples(sq)}

\* The distinct peg configurations that legal jumps lead to from a grid, the
\* grid's own included.
RECURSIVE ConfigsFrom(_, _)
ConfigsFrom(seen, frontier) ==
    IF frontier = {} THEN seen
    ELSE Only({ConfigsFrom(seen \cup nxt, nxt) :
                  nxt \in {(UNION {{ApplyJump(sq, t) : t \in JumpTriples(sq)} :
                                      sq \in frontier}) \ seen}})

ReachableConfigs(sq) == ConfigsFrom({PegConfig(sq)}, {PegConfig(sq)})

SeqSet(q) == {q[i] : i \in 1 .. Len(q)}

RootSquares == heap[ROOT].squares

\* main() has run to its end; out_total is the total that line 328 printed.
Finished == pc = "done"

\* C1 as stated: the total that line 328 prints is the number of distinct
\* peg configurations that legal jumps reach from the starting layout.
C1_TotalIsDistinctConfigs ==
    Finished => out_total = Cardinality(ReachableConfigs(RootSquares))

\* C1 as amended: the total that line 328 prints is the number of boards of
\* the search tree, one for every sequence of legal jumps from the starting
\* layout (the empty sequence is the root); a peg configuration that several
\* sequences reach is counted once for each of them.
C1_TotalIsJumpSequences ==
    Finished => out_total = Cardinality(JumpSequences(RootSquares))

C1_Witness ==
    /\ Finished
    /\ out_total > Cardinality(ReachableConfigs(RootSquares))

\* C2: when generate_boards(B) returns, B has exactly one child for each legal
\* jump of its grid and no other child: the jumps of its children are the
\* legal jumps, each once, new_board_num counts them, and next[] holds that
\* many distinct boards and is NULL above them.  This holds of every board that
\* returns, before and after a one-peg board is found.
C2_ChildrenAreTheLegalJumps ==
    returned.b # NULL =>
        /\ SeqSet(returned.moves) = JumpTriples(returned.squares)
        /\ Len(returned.moves) = Cardinality(JumpTriples(returned.squares))
        /\ returned.new_board_num = Len(returned.moves)
        /\ \A i \in 1 .. MAX_BOARDS :
              (returned.next[i] # NULL) <=> (i <= returned.new_board_num)
        /\ \A i, j \in 1 .. returned.new_board_num :
              i # j => returned.next[i] # returned.next[j]

C2_Witness ==
    /\ returned.b # NULL
    /\ total_winning_boards > 0
    /\ Len(returned.moves) >= 2

Followed == act.b # NULL

\* C3: the search of initial_board_1 reaches a board with exactly one peg, and
\* the call on a one-peg board records it: total_winning_boards >= 1 and
\* winning_board is a one-peg board from then on.
C3_OnePegBoardIsRecorded ==
    /\ (Followed /\ count_pegs(act.squares) = 1) =>
           (total_winning_boards >= 1 /\ winning_board # NULL)
    /\ winning_board # NULL =>
           (winning_board = act.b /\ count_pegs(act.squares) = 1)

C3_Witness ==
    /\ Followed
    /\ count_pegs(act.squares) = 1
    /\ total_winning_boards >= 1

\* C4: the boards that line 337 prints have the peg counts n, n - 1, ..., 1,
\* n the peg count of the root: the i-th board printed has n - i + 1 pegs, and
\* when a winner was recorded n boards have been printed at the end.
C4_ReplayCountsDown ==
    /\ \A i \in 1 .. Len(printed) :
          count_pegs(heap[printed[i]].squares) = count_pegs(RootSquares) - i + 1
    /\ (pc = "done" /\ total_winning_boards > 0) =>
          Len(printed) = count_pegs(RootSquares)

C4_Witness ==
    /\ pc = "done"
    /\ Len(printed) >= 4
    /\ count_pegs(heap[printed[Len(printed)]].squares) = 1

\* C5: the children generate_boards() creates of a board are those of the
\* triples (row, col, offnum) with an Occupied source, an Occupied adjacent
\* cell and an Empty landing cell, and of no other triple; the adjacent and the
\* landing cell of every child's jump are cells of the grid that are not
\* Invalid.
C5_ChildIffLegalJump ==
    Followed =>
        /\ SeqSet(act.jumps) = JumpTriples(act.squares)
        /\ \A t \in SeqSet(act.jumps) :
              /\ InGrid(Jumped(t)[1], Jumped(t)[2])
              /\ InGrid(Landing(t)[1], Landing(t)[2])
              /\ ~Invalid(act.squares, Jumped(t))
              /\ ~Invalid(act.squares, Landing(t))

C5_Witness ==
    /\ Followed
    /\ Len(act.jumps) >= 6
    /\ \E t \in SeqSet(act.jumps) : t[3] >= 4

\* C6: every child has exactly one peg fewer than its parent.
C6_ChildHasOnePegFewer ==
    (Followed /\ act.prev # NULL) =>
        count_pegs(act.squares) = count_pegs(act.prev_squares) - 1

C6_Witness ==
    /\ Followed
    /\ act.prev # NULL
    /\ count_pegs(act.prev_squares) = 9

\* C7: the Invalid cells of every board of the search are the Invalid cells of
\* the root.
C7_InvalidCellsAreFixed ==
    Followed =>
        \A rc \in Rows \X Cols :
            Invalid(act.squares, rc) <=> Invalid(RootSquares, rc)

C7_Witness ==
    /\ Followed
    /\ act.prev # NULL
    /\ count_pegs(act.squares) = 2

\* C8: the search from the root terminates, and the deepest board expanded has
\* as many ancestors as the starting layout has pegs, less one.  The number of
\* pegs of the board being expanded is the variant: it is at least 1, and the
\* number of ancestors of the board (depth counts the board itself too) is
\* exactly the number of pegs the root has more, so no chain of calls has more
\* than count_pegs(root) activations; the loops of each activation run to
\* their end and make at most 9 * 13 * 6 calls.
C8_TerminatesWithinPegCount ==
    Followed =>
        /\ count_pegs(act.squares) >= 1
        /\ depth - 1 = count_pegs(RootSquares) - count_pegs(act.squares)
        /\ depth - 1 <= count_pegs(RootSquares) - 1
        /\ act.stop = "end"
        /\ Len(act.jumps) <= NUM_ROWS * NUM_COLS * NUM_OFFSETS

\* A board with 13 ancestors is expanded: the bound is reached.
C8_Witness ==
    /\ Followed
    /\ depth - 1 = 13
    /\ count_pegs(RootSquares) = 14

\* Lines 227-229: the cells of the child that a jump writes.
Writes(row, col, offnum) ==
    {<<row, col>>, AdjCell(row, col, offnum), LandCell(row, col, offnum)}

\* C9: on every board of the search, for every Occupied source cell and every
\* direction, the cells that the test of line 221 reads are cells of the grid,
\* and so are the cells that lines 227-229 write when the test passes.
C9_AccessesAreInTheGrid ==
    Followed =>
        /\ act.stop = "end"
        /\ \A rc \in Rows \X Cols : \A offnum \in Offsets :
              IsFull(Sq(act.squares, rc[1], rc[2])) =>
                  /\ \A a \in Accesses(act.squares, rc[1], rc[2], offnum) :
                        InGrid(a[1], a[2])
                  /\ <<rc[1], rc[2], offnum>> \in SeqSet(act.jumps) =>
                        \A w \in Writes(rc[1], rc[2], offnum) :
                            InGrid(w[1], w[2])

\* A peg whose horizontal jump would land outside the array.
C9_Witness ==
    /\ Followed
    /\ act.prev # NULL
    /\ \E rc \in Rows \X Cols : \E offnum \in {4, 5} :
          /\ IsFull(Sq(act.squares, rc[1], rc[2]))
          /\ ~InGrid(LandCell(rc[1], rc[2], offnum)[1],
                     LandCell(rc[1], rc[2], offnum)[2])

\* The direction opposite to offnum.
Opposite(offnum) ==
    CHOOSE o \in Offsets : roff(o) = -roff(offnum) /\ coff(o) = -coff(offnum)

\* C10: on a child made by the jump from S over J to L, the jump from L over J
\* to S passes neither the test of line 221 nor is it among the jumps the
\* child's loops make.
C10_ReverseJumpIsIllegal ==
    (Followed /\ act.prev # NULL) =>
        LET l == Landing(act.from)
            back == <<l[1], l[2], Opposite(act.from[3])>>
        IN  /\ Jumped(back) = Jumped(act.from)
            /\ Landing(back) = Source(act.from)
            /\ ~Legal(act.squares, back[1], back[2], back[3])
            /\ back \notin SeqSet(act.jumps)

C10_Witness ==
    /\ Followed
    /\ act.prev # NULL
    /\ act.from[3] >= 4
    /\ Len(act.jumps) >= 1

\* C11: once calloc() has returned NULL the process has terminated at that
\* point: it is not running on in an undefined state, the count of boards is
\* the number of boards that were made (the root and the successful
\* calloc()s), and neither the total nor a board of the winning path has been
\* printed.
C11_AllocationFailureIsFatal ==
    alloc_failed =>
        /\ pc = "crashed"
        /\ total_boards = nalloc
        /\ out_total = -1
        /\ printed = <<>>

OnePeg(e) == e.count = 1

\* The calls of generate_boards() on one-peg boards so far, in order.
Winners == SelectSeq(entered, OnePeg)

\* C12: in every state winning_board is NULL exactly when no call on a
\* one-peg board has been made, which is when total_winning_boards is 0;
\* total_winning_boards counts the calls on one-peg boards; and winning_board,
\* when set, is the board of the first of them, the one with the smallest
\* boardnum, whatever number of one-peg boards followed.
C12_FirstWinnerIsKept ==
    /\ total_winning_boards = Len(Winners)
    /\ (winning_board = NULL) <=> (total_winning_boards = 0)
    /\ (winning_board = NULL) <=> (Winners = <<>>)
    /\ winning_board # NULL =>
          /\ winning_board = Winners[1].b
          /\ heap[winning_board].boardnum = Winners[1].boardnum
          /\ count_pegs(heap[winning_board].squares) = 1
          /\ \A i \in 2 .. Len(Winners) :
                Winners[1].boardnum < Winners[i].boardnum

\* A second one-peg board has just been expanded.
C12_Witness ==
    /\ pc = "search"
    /\ Len(Winners) >= 2
    /\ entered[Len(entered)].count = 1
    /\ winning_board # entered[Len(entered)].b

\* The triangular board of the header comment in axial coordinates: hole
\* <<i, j>> is the j-th hole of row i, both from 0; a position is the set of
\* the holes with a peg; a move is a hole and one of six unit directions, and
\* lands two holes away.
Holes == {h \in (0 .. 4) \X (0 .. 4) : h[2] <= h[1]}

TriDirs == << <<-1, -1>>, <<-1, 0>>, <<1, 0>>, <<1, 1>>, <<0, -1>>, <<0, 1>> >>

TriStep(h, d, n) == <<h[1] + n * d[1], h[2] + n * d[2]>>

TriMoves(pegs) ==
    {m \in Holes \X {TriDirs[k] : k \in 1 .. 6} :
        /\ m[1] \in pegs
        /\ TriStep(m[1], m[2], 1) \in pegs
        /\ TriStep(m[1], m[2], 2) \in Holes \ pegs}

TriApply(pegs, m) ==
    (pegs \ {m[1], TriStep(m[1], m[2], 1)}) \cup {TriStep(m[1], m[2], 2)}

\* Where the rectangular encoding draws hole h (lines 26-34 of the header).
GridCell(h) == <<h[1] + 2, 6 - h[1] + 2 * h[2]>>

\* The position a grid stands for.
ToTri(sq) == {h \in Holes : IsFull(Sq(sq, GridCell(h)[1], GridCell(h)[2]))}

\* The move a jump (row, col, offnum) of the grid stands for.
TriMoveOf(t) ==
    <<CHOOSE h \in Holes : GridCell(h) = <<t[1], t[2]>>, TriDirs[t[3] + 1]>>

\* C13: on every board of the search the pegs stand on holes of the triangle,
\* the jumps the loops make are, one for one, the moves of the triangular
\* board, and the child of a jump stands for the position the move leads to.
C13_GridIsTheTriangle ==
    Followed =>
        /\ count_pegs(act.squares) = Cardinality(ToTri(act.squares))
        /\ {TriMoveOf(t) : t \in SeqSet(act.jumps)} = TriMoves(ToTri(act.squares))
        /\ Len(act.jumps) = Cardinality(TriMoves(ToTri(act.squares)))
        /\ \A t \in SeqSet(act.jumps) :
              ToTri(MakeChild(act.squares, t[1], t[2], t[3]))
                  = TriApply(ToTri(act.squares), TriMoveOf(t))
        /\ act.prev # NULL =>
              ToTri(act.squares)
                  = TriApply(ToTri(act.prev_squares), TriMoveOf(act.from))

\* A board with a jump to the left and a jump to the right.
C13_Witness ==
    /\ Followed
    /\ act.prev # NULL
    /\ \E t \in SeqSet(act.jumps) : t[3] = 4
    /\ \E t \in SeqSet(act.jumps) : t[3] = 5

\* What a cell of a grid is: Invalid, Occupied or Empty.
CellState(sq, rc) ==
    IF Invalid(sq, rc) THEN "invalid"
    ELSE IF Occupied(sq, rc) THEN "occupied"
    ELSE IF Empty(sq, rc) THEN "empty"
    ELSE "other"

\* C14: the grid of a child is the grid of its parent except that the source
\* cell and the jumped cell of its jump are Empty and the landing cell is
\* Occupied: every other cell is Invalid, Empty or Occupied as it is in the
\* parent.
C14_ChildDiffersInThreeCells ==
    (Followed /\ act.prev # NULL) =>
        /\ Empty(act.squares, Source(act.from))
        /\ Empty(act.squares, Jumped(act.from))
        /\ Occupied(act.squares, Landing(act.from))
        /\ ~Invalid(act.squares, Landing(act.from))
        /\ \A rc \in Rows \X Cols :
              rc \notin {Source(act.from), Jumped(act.from), Landing(act.from)}
                  => /\ CellState(act.squares, rc) # "other"
                     /\ CellState(act.squares, rc)
                            = CellState(act.prev_squares, rc)

\* A child of a board that carries a marker itself, made by a jump that
\* leaves the marked peg where it is.
C14_Witness ==
    /\ Followed
    /\ act.prev # NULL
    /\ \E rc \in Rows \X Cols :
          /\ IsLast(Sq(act.prev_squares, rc[1], rc[2]))
          /\ rc \notin {Source(act.from), Jumped(act.from)}
          /\ Occupied(act.squares, rc)

\* C15: no step of the program changes the grid of a board that exists: the
\* creation of a child and the calls on the child and its descendants leave
\* the grid of the parent, and of every other board made before, as it was,
\* so a board's grid when its call returns is its grid when the call began.
C15_GridsOfOtherBoardsUnchanged ==
    [][\A a \in DOMAIN heap \cap DOMAIN heap' :
           heap'[a].squares = heap[a].squares]_vars

\* A call on a board with children of its own has returned to a caller that
\* has two children by now and goes on to a third, below the root.
C15_Witness ==
    /\ pc = "search"
    /\ returned.b # NULL
    /\ Len(returned.moves) >= 1
    /\ Len(stack) >= 2
    /\ Top.new_board_num >= 2
    /\ Top.at = "move"

\* The cells of a grid that carry the last-moved marker.
Marked(sq) == {rc \in Rows \X Cols : IsLast(Sq(sq, rc[1], rc[2]))}

\* C16: the root carries no marker; a board that is not the root carries it
\* on exactly one cell, the landing cell of the jump that made the board,
\* which is Occupied, whether or not its parent carried a marker, and where.
C16_OneMarkerOnTheLandingCell ==
    Followed =>
        /\ Marked(RootSquares) = {}
        /\ act.prev = NULL => Marked(act.squares) = {}
        /\ act.prev # NULL =>
              /\ Marked(act.squares) = {Landing(act.from)}
              /\ Occupied(act.squares, Landing(act.from))

\* A child of a marked parent whose jump leaves the parent's marked peg where
\* it is and lands elsewhere.
C16_Witness ==
    /\ Followed
    /\ act.prev # NULL
    /\ \E rc \in Marked(act.prev_squares) :
          /\ rc # Source(act.from)
          /\ rc # Jumped(act.from)
          /\ rc # Landing(act.from)
          /\ IsFull(Sq(act.squares, rc[1], rc[2]))

\* The order of the loops: by row, then column, then direction index.
LexLess(s, t) ==
    \/ s[1] < t[1]
    \/ s[1] = t[1] /\ s[2] < t[2]
    \/ s[1] = t[1] /\ s[2] = t[2] /\ s[3] < t[3]

\* The calls made on children of board b so far, in the order they were made.
ChildEntries(b) ==
    LET IsChild(e) == e.prev = b
    IN  SelectSeq(entered, IsChild)

\* The place in `entered` of the call on board b.
EntryOf(b) == CHOOSE k \in 1 .. Len(entered) : entered[k].b = b

\* The places in `entered` of the call k and of the calls on the ancestors of
\* its board.
RECURSIVE EntryAncestors(_)
EntryAncestors(k) ==
    IF entered[k].prev = NULL THEN {k}
    ELSE {k} \cup EntryAncestors(EntryOf(entered[k].prev))

\* up-left, up-right, down-left, down-right, left, right
DirectionOrder ==
    << <<-1, -1>>, <<-1, 1>>, <<1, -1>>, <<1, 1>>, <<0, -2>>, <<0, 2>> >>

\* C17: boards are discovered depth first, in pre-order, the jumps of a board
\* in the order of (row, column, direction index): the direction indexes are
\* up-left, up-right, down-left, down-right, left, right; boardnum grows with
\* the order of the calls; every call but the first is on a child of the
\* board of the call before it or of one of that board's ancestors; the
\* children of a board are made in growing order of their jumps and stored in
\* next[0], next[1], ... in that order; and once a later child of a board
\* exists, no further board of the subtree of an earlier child is discovered.
C17_DepthFirstPreOrder ==
    /\ \A o \in Offsets : <<roff(o), coff(o)>> = DirectionOrder[o + 1]
    /\ \A k \in 2 .. Len(entered) :
          /\ entered[k - 1].boardnum < entered[k].boardnum
          /\ entered[k].prev \in
                 {entered[a].b : a \in EntryAncestors(k - 1)}
    /\ \A i, j \in 1 .. Len(entered) :
          (i < j /\ entered[i].prev = entered[j].prev) =>
              /\ LexLess(entered[i].from, entered[j].from)
              /\ \A k \in j .. Len(entered) : i \notin EntryAncestors(k)
    /\ \A a \in DOMAIN heap :
          \A m \in 1 .. MAX_BOARDS :
              heap[a].next[m] =
                  (IF m <= Len(ChildEntries(a)) THEN ChildEntries(a)[m].b
                   ELSE NULL)

\* The search is over, and the root's second child was made after a subtree
\* of four boards or more under its first.
C17_Witness ==
    /\ pc = "searched"
    /\ \E k \in 6 .. Len(entered) :
          /\ entered[k].prev = ROOT
          /\ entered[2].prev = ROOT
          /\ \E d \in 3 .. k - 1 : Cardinality(EntryAncestors(d)) >= 3

\* The boards the forward links lead through from board a.
RECURSIVE Walk(_, _)
Walk(h, a) == IF a = NULL THEN <<>> ELSE <<a>> \o Walk(h, h[a].nextwin)

Reconstructed == pc \in {"replay", "done"} /\ total_winning_boards > 0

\* C18: no board has a forward link before the reconstruction, or ever when
\* there is no winner.  After it the forward links lead from the root through
\* the boards of the prev chain of winning_board and no other: the first is
\* the root, each further one has the one before it as its prev, the last is
\* winning_board, whose forward link is NULL, and boards off the chain have no
\* forward link.
C18_ForwardLinksAreTheWinningPath ==
    /\ (pc \notin {"relink", "replay", "done"} \/ total_winning_boards = 0) =>
          \A a \in DOMAIN heap : heap[a].nextwin = NULL
    /\ Reconstructed =>
          LET w == Walk(heap, ROOT)
          IN  /\ w[1] = ROOT
              /\ \A i \in 2 .. Len(w) : heap[w[i]].prev = w[i - 1]
              /\ w[Len(w)] = winning_board
              /\ heap[winning_board].nextwin = NULL
              /\ SeqSet(w) = Chain(heap, winning_board)
              /\ \A a \in DOMAIN heap \ SeqSet(w) : heap[a].nextwin = NULL

\* A reconstructed path of five boards or more, in a search that found a
\* second one-peg board after the one the path leads to.
C18_Witness ==
    /\ Reconstructed
    /\ Len(Walk(heap, ROOT)) >= 5
    /\ total_winning_boards >= 2

SearchCompleted == pc \in {"searched", "relink", "replay", "done"}

\* C19: when generate_boards(root) has returned, the boardnum of the k-th call
\* is k, so the boardnums are 1, 2, ..., total_boards, each of one board;
\* the root has 1, a child has more than its parent, a board keeps the
\* boardnum of its call, and total_boards is the number of boards: the root
\* and one for each calloc().
C19_BoardnumsAreOneToTotal ==
    SearchCompleted =>
        /\ Len(entered) = total_boards
        /\ nalloc = total_boards
        /\ \A k \in 1 .. Len(entered) : entered[k].boardnum = k
        /\ Cardinality({entered[k].b : k \in 1 .. Len(entered)}) = total_boards
        /\ entered[1].b = ROOT
        /\ heap[ROOT].boardnum = 1
        /\ \A k \in 2 .. Len(entered) :
              entered[EntryOf(entered[k].prev)].boardnum < entered[k].boardnum
        /\ \A a \in DOMAIN heap : heap[a].boardnum = entered[EntryOf(a)].boardnum

\* A completed search of more than 20 boards, some of them four levels down.
C19_Witness ==
    /\ SearchCompleted
    /\ total_boards > 20
    /\ \E k \in 1 .. Len(entered) : Cardinality(EntryAncestors(k)) >= 5

\* C20: no board of the search of initial_board_1 has more than MAX_BOARDS
\* legal jumps, so the loops of a call make at most MAX_BOARDS children and
\* the value of new_board_num at each write of line 231 is an index of next[].
C20_ChildArrayIsNeverOverrun ==
    Followed =>
        /\ Cardinality(JumpTriples(act.squares)) <= MAX_BOARDS
        /\ Len(act.jumps) <= MAX_BOARDS
        /\ \A i \in 1 .. Len(act.jumps) : i - 1 \in 0 .. MAX_BOARDS - 1

\* A board with eight legal jumps, the most there are.
C20_Witness ==
    /\ Followed
    /\ Len(act.jumps) = 8

====
